---------------------------- MODULE Spec2Model ----------------------------
(***************************************************************************)
(* A model of src/cli/utils/platform_utils.py: the cross-platform helpers  *)
(* of the Agent Starter Pack CLI.                                          *)
(*                                                                         *)
(* The module's functions are stateless; what they read and write is the   *)
(* ambient state of the process: the OS name platform.system() reports,    *)
(* the executables on PATH, os.environ and the filesystem.  Each public    *)
(* function is one action.  An action records the call it made (its        *)
(* arguments, what the environment did, what it returned or raised and     *)
(* what it logged) in the variable call, so that properties of the         *)
(* function's result are state predicates.                                 *)
(*                                                                         *)
(* Python str values are sequences of one-character strings, so that       *)
(* f-string interpolation is concatenation and "x in text" is a search.    *)
(* File contents are sequences of lines.  An Optional value is a sequence  *)
(* of length 0 (None) or 1.                                                *)
(***************************************************************************)
EXTENDS Naturals, Sequences, FiniteSets

VARIABLES
  system,                 \* what platform.system() returns in this process
  has_add_dll_directory,  \* hasattr(os, "add_dll_directory")
  path,                   \* the command names shutil.which resolves on PATH
  environ,                \* os.environ, restricted to EnvNames
  fs,                     \* the directories a caller may name, and their files
  call                    \* the last call made to the module, with its outcome

vars == <<system, has_add_dll_directory, path, environ, fs, call>>

-----------------------------------------------------------------------------
(* Bounds and input sets. *)

\* The sub-process exits with a code in 0..MaxExitCode.
MaxExitCode == 1

None == <<>>
Some(x) == <<x>>

-----------------------------------------------------------------------------
(* String constants of the source. *)

\* MakeAdvisoryWindows: the text returned at platform_utils.py lines 106-125, character by character.
MakeAdvisoryWindows ==
  <<
    "\n","M","a","k","e"," ","i","s"," ","n","o","t"," ","a","v","a","i","l","a","b","l","e",
    "."," ","T","o"," ","i","n","s","t","a","l","l"," ","m","a","k","e"," ","o","n"," ","W","i",
    "n","d","o","w","s",","," ","u","s","e"," ","o","n","e"," ","o","f"," ","t","h","e","s","e",
    " ","o","p","t","i","o","n","s",":","\n","\n","1","."," ","U","s","i","n","g"," ","C","h",
    "o","c","o","l","a","t","e","y",":","\n"," "," "," ","c","h","o","c","o"," ","i","n","s",
    "t","a","l","l"," ","m","a","k","e","\n","\n","2","."," ","U","s","i","n","g"," ","W","i",
    "n","g","e","t",":","\n"," "," "," ","w","i","n","g","e","t"," ","i","n","s","t","a","l",
    "l"," ","G","n","u","W","i","n","3","2",".","M","a","k","e","\n","\n","3","."," ","U","s",
    "i","n","g"," ","S","c","o","o","p",":","\n"," "," "," ","s","c","o","o","p"," ","i","n",
    "s","t","a","l","l"," ","m","a","k","e","\n","\n","4","."," ","U","s","i","n","g"," ","V",
    "i","s","u","a","l"," ","S","t","u","d","i","o"," ","B","u","i","l","d"," ","T","o","o","l",
    "s"," ","(","i","n","c","l","u","d","e","s"," ","n","m","a","k","e",")",":","\n"," "," ",
    " ","-"," ","I","n","s","t","a","l","l"," ","V","i","s","u","a","l"," ","S","t","u","d","i",
    "o"," ","B","u","i","l","d"," ","T","o","o","l","s","\n"," "," "," ","-"," ","U","s","e",
    " ","'","n","m","a","k","e","'"," ","i","n","s","t","e","a","d"," ","o","f"," ","'","m","a",
    "k","e","'","\n","\n","5","."," ","U","s","i","n","g"," ","W","S","L"," ","(","W","i","n",
    "d","o","w","s"," ","S","u","b","s","y","s","t","e","m"," ","f","o","r"," ","L","i","n","u",
    "x",")",":","\n"," "," "," ","w","s","l"," ","-","-","i","n","s","t","a","l","l","\n"," ",
    " "," ","#"," ","T","h","e","n"," ","u","s","e"," ","m","a","k","e"," ","w","i","t","h","i",
    "n"," ","W","S","L","\n"
  >>

\* MakeAdvisoryMacos: the text returned at platform_utils.py lines 127-135, character by character.
MakeAdvisoryMacos ==
  <<
    "\n","M","a","k","e"," ","i","s"," ","n","o","t"," ","a","v","a","i","l","a","b","l","e",
    "."," ","T","o"," ","i","n","s","t","a","l","l"," ","m","a","k","e"," ","o","n"," ","m","a",
    "c","O","S",":","\n","\n","1","."," ","I","n","s","t","a","l","l"," ","X","c","o","d","e",
    " ","C","o","m","m","a","n","d"," ","L","i","n","e"," ","T","o","o","l","s",":","\n"," ",
    " "," ","x","c","o","d","e","-","s","e","l","e","c","t"," ","-","-","i","n","s","t","a","l",
    "l","\n","\n","2","."," ","U","s","i","n","g"," ","H","o","m","e","b","r","e","w",":","\n",
    " "," "," ","b","r","e","w"," ","i","n","s","t","a","l","l"," ","m","a","k","e","\n"
  >>

\* MakeAdvisoryLinux: the text returned at platform_utils.py lines 137-150, character by character.
MakeAdvisoryLinux ==
  <<
    "\n","M","a","k","e"," ","i","s"," ","n","o","t"," ","a","v","a","i","l","a","b","l","e",
    "."," ","T","o"," ","i","n","s","t","a","l","l"," ","m","a","k","e"," ","o","n"," ","L","i",
    "n","u","x",":","\n","\n","1","."," ","U","b","u","n","t","u","/","D","e","b","i","a","n",
    ":","\n"," "," "," ","s","u","d","o"," ","a","p","t"," ","u","p","d","a","t","e"," ","&",
    "&"," ","s","u","d","o"," ","a","p","t"," ","i","n","s","t","a","l","l"," ","b","u","i","l",
    "d","-","e","s","s","e","n","t","i","a","l","\n","\n","2","."," ","C","e","n","t","O","S",
    "/","R","H","E","L","/","F","e","d","o","r","a",":","\n"," "," "," ","s","u","d","o"," ",
    "y","u","m"," ","i","n","s","t","a","l","l"," ","m","a","k","e","\n"," "," "," ","#"," ",
    "o","r","\n"," "," "," ","s","u","d","o"," ","d","n","f"," ","i","n","s","t","a","l","l",
    " ","m","a","k","e","\n","\n","3","."," ","A","r","c","h"," ","L","i","n","u","x",":","\n",
    " "," "," ","s","u","d","o"," ","p","a","c","m","a","n"," ","-","S"," ","m","a","k","e","\n"
  >>

\* UvAdvisoryWindows: the text returned at platform_utils.py lines 232-246, character by character.
UvAdvisoryWindows ==
  <<
    "\n","u","v"," ","i","s"," ","n","o","t"," ","a","v","a","i","l","a","b","l","e","."," ",
    "T","o"," ","i","n","s","t","a","l","l"," ","u","v"," ","o","n"," ","W","i","n","d","o","w",
    "s",":","\n","\n","1","."," ","U","s","i","n","g"," ","P","o","w","e","r","S","h","e","l",
    "l",":","\n"," "," "," ","p","o","w","e","r","s","h","e","l","l"," ","-","E","x","e","c",
    "u","t","i","o","n","P","o","l","i","c","y"," ","B","y","P","a","s","s"," ","-","c"," ",
    "\"","i","r","m"," ","h","t","t","p","s",":","/","/","a","s","t","r","a","l",".","s","h",
    "/","u","v","/","i","n","s","t","a","l","l",".","p","s","1"," ","|"," ","i","e","x","\"",
    "\n","\n","2","."," ","U","s","i","n","g"," ","p","i","p",":","\n"," "," "," ","p","i","p",
    " ","i","n","s","t","a","l","l"," ","u","v","\n","\n","3","."," ","U","s","i","n","g"," ",
    "S","c","o","o","p",":","\n"," "," "," ","s","c","o","o","p"," ","i","n","s","t","a","l",
    "l"," ","u","v","\n","\n","4","."," ","U","s","i","n","g"," ","C","h","o","c","o","l","a",
    "t","e","y",":","\n"," "," "," ","c","h","o","c","o"," ","i","n","s","t","a","l","l"," ",
    "u","v","\n"
  >>

\* UvAdvisoryUnix: the text returned at platform_utils.py lines 248-262, character by character.
UvAdvisoryUnix ==
  <<
    "\n","u","v"," ","i","s"," ","n","o","t"," ","a","v","a","i","l","a","b","l","e","."," ",
    "T","o"," ","i","n","s","t","a","l","l"," ","u","v",":","\n","\n","1","."," ","U","s","i",
    "n","g"," ","t","h","e"," ","i","n","s","t","a","l","l"," ","s","c","r","i","p","t",":",
    "\n"," "," "," ","c","u","r","l"," ","-","L","s","S","f"," ","h","t","t","p","s",":","/",
    "/","a","s","t","r","a","l",".","s","h","/","u","v","/","i","n","s","t","a","l","l",".","s",
    "h"," ","|"," ","s","h","\n","\n","2","."," ","U","s","i","n","g"," ","p","i","p",":","\n",
    " "," "," ","p","i","p"," ","i","n","s","t","a","l","l"," ","u","v","\n","\n","3","."," ",
    "U","s","i","n","g"," ","H","o","m","e","b","r","e","w"," ","(","m","a","c","O","S",")",":",
    "\n"," "," "," ","b","r","e","w"," ","i","n","s","t","a","l","l"," ","u","v","\n","\n","4",
    "."," ","U","s","i","n","g"," ","y","o","u","r"," ","p","a","c","k","a","g","e"," ","m","a",
    "n","a","g","e","r"," ","(","L","i","n","u","x",")",":","\n"," "," "," ","#"," ","C","h",
    "e","c","k"," ","y","o","u","r"," ","d","i","s","t","r","i","b","u","t","i","o","n","'","s",
    " ","p","a","c","k","a","g","e"," ","r","e","p","o","s","i","t","o","r","y","\n"
  >>

\* batch_content: the template assigned at platform_utils.py lines 272-319, one string per line
\* (every line ends with a newline in the source).
batch_content ==
  <<
    "@echo off",
    "REM Windows batch script for Agent Starter Pack",
    "",
    "set SCRIPT_DIR=%~dp0",
    "cd /d \"%SCRIPT_DIR%\"",
    "",
    "if \"%1\"==\"install\" goto install",
    "if \"%1\"==\"playground\" goto playground",
    "if \"%1\"==\"test\" goto test",
    "if \"%1\"==\"lint\" goto lint",
    "goto help",
    "",
    ":install",
    "echo Installing dependencies...",
    "uv sync --dev --extra jupyter --extra streamlit",
    "if exist \"frontend\" (",
    "    cd frontend && npm install && cd ..",
    ")",
    "goto end",
    "",
    ":playground",
    "echo Starting playground...",
    "uv run streamlit run app/main.py",
    "goto end",
    "",
    ":test",
    "echo Running tests...",
    "uv run pytest tests/",
    "goto end",
    "",
    ":lint",
    "echo Running linters...",
    "uv run ruff check .",
    "uv run mypy .",
    "goto end",
    "",
    ":help",
    "echo Available commands:",
    "echo   install    - Install dependencies",
    "echo   playground - Start the development playground",
    "echo   test       - Run tests",
    "echo   lint       - Run linters",
    "echo.",
    "echo Usage: build.bat [command]",
    "goto end",
    "",
    ":end"
  >>

\* powershell_content: the template assigned at platform_utils.py lines 322-365, one string per line
\* (every line ends with a newline in the source).
powershell_content ==
  <<
    "# PowerShell script for Agent Starter Pack",
    "",
    "param(",
    "    [Parameter(Position=0)]",
    "    [string]$Command = \"help\"",
    ")",
    "",
    "$ScriptDir = Split-Path -Parent $MyInvocation.MyCommand.Path",
    "Set-Location $ScriptDir",
    "",
    "switch ($Command) {",
    "    \"install\" {",
    "        Write-Host \"Installing dependencies...\" -ForegroundColor Green",
    "        uv sync --dev --extra jupyter --extra streamlit",
    "        if (Test-Path \"frontend\") {",
    "            Set-Location frontend",
    "            npm install",
    "            Set-Location ..",
    "        }",
    "    }",
    "    \"playground\" {",
    "        Write-Host \"Starting playground...\" -ForegroundColor Green",
    "        uv run streamlit run app/main.py",
    "    }",
    "    \"test\" {",
    "        Write-Host \"Running tests...\" -ForegroundColor Green",
    "        uv run pytest tests/",
    "    }",
    "    \"lint\" {",
    "        Write-Host \"Running linters...\" -ForegroundColor Green",
    "        uv run ruff check .",
    "        uv run mypy .",
    "    }",
    "    default {",
    "        Write-Host \"Available commands:\" -ForegroundColor Yellow",
    "        Write-Host \"  install    - Install dependencies\"",
    "        Write-Host \"  playground - Start the development playground\"",
    "        Write-Host \"  test       - Run tests\"",
    "        Write-Host \"  lint       - Run linters\"",
    "        Write-Host \"\"",
    "        Write-Host \"Usage: ./build.ps1 [command]\"",
    "    }",
    "}"
  >>

s_cmd == <<"c","m","d">>
s_slash_c == <<"/","c">>
s_sh == <<"s","h">>
s_dash_c == <<"-","c">>
s_make == <<"m","a","k","e">>
s_gmake == <<"g","m","a","k","e">>
s_mingw32_make == <<"m","i","n","g","w","3","2","-","m","a","k","e">>
s_uv == <<"u","v">>
s_cd == <<"c","d"," ">>
s_and_npm_install == <<" ","&","&"," ","n","p","m"," ","i","n","s","t","a","l","l">>
s_npm_prefix == <<"n","p","m"," ","-","-","p","r","e","f","i","x"," ">>
s_install == <<" ","i","n","s","t","a","l","l">>
s_echo_hi == <<"e","c","h","o"," ","h","i">>
s_quoted == <<"e","c","h","o"," ","\"","a"," ","b","\""," ","&","&"," ","d","i","r">>
s_frontend == <<"f","r","o","n","t","e","n","d">>
s_my_app == <<"m","y"," ","a","p","p","/","u","i">>
s_Chocolatey == <<"C","h","o","c","o","l","a","t","e","y">>
s_Winget == <<"W","i","n","g","e","t">>
s_Scoop == <<"S","c","o","o","p">>
s_Homebrew == <<"H","o","m","e","b","r","e","w">>
s_xcode_select == <<"x","c","o","d","e","-","s","e","l","e","c","t">>
s_boom == <<"b","o","o","m","\n">>
s_not_real == <<"d","e","f","i","n","i","t","e","l","y","_","n","o","t","_","a","_","r","e","a","l","_","c","o","m","m","a","n","d","_","1","2","3","4","5">>
s_bin_dir == <<"/","u","s","r","/","b","i","n","/">>
s_utf_8 == <<"u","t","f","-","8">>
s_1 == <<"1">>
s_C == <<"C">>
s_0 == <<"0">>
s_cp1252 == <<"c","p","1","2","5","2">>
s_str_e == <<"<","s","t","r","(","e",")",">">>

-----------------------------------------------------------------------------
(* Input sets. *)

\* OS names: the three the module tests for, and one it does not.
Systems == {"Windows", "Darwin", "Linux", "FreeBSD"}

\* Command lines handed to get_shell_command and run_cross_platform_command.
Commands == {s_echo_hi, s_quoted}

\* Directories handed to get_npm_install_command.
FrontendDirs == {s_frontend, s_my_app}

\* Executables that may be installed, and the names a caller may probe.
KnownTools == {s_make, s_gmake, s_mingw32_make, s_uv}
ProbedTools == KnownTools \cup {s_not_real}

EnvNames == {"PYTHONIOENCODING", "PYTHONUTF8", "LANG"}
EnvValues == [PYTHONIOENCODING |-> {s_utf_8, s_cp1252},
              PYTHONUTF8 |-> {s_1, s_0},
              LANG |-> {s_C}]

\* project_path / cwd arguments: a project directory and a path that names nothing.
Dirs == {"proj", "nowhere"}
ScriptNames == {"build.bat", "build.ps1"}
FileNames == ScriptNames \cup {"Makefile"}
old_content == <<"echo old">>
makefile_content == <<"install:", "\tuv sync">>

-----------------------------------------------------------------------------
(* Platform detection: platform_utils.py lines 24-36. *)

is_windows == system = "Windows"

\* A variant of is_macos that takes every non-Windows system for macOS.
is_macos_unixlike == system # "Windows"

is_macos == system = "Darwin"

is_linux == system = "Linux"

-----------------------------------------------------------------------------
(* Command shapes: lines 39-68. *)

\* A variant of get_shell_command that wraps the command in double quotes.
get_shell_command_quoted(command) ==
  IF is_windows
    THEN <<s_cmd, s_slash_c, <<"\"">> \o command \o <<"\"">> >>
    ELSE <<s_sh, s_dash_c, <<"\"">> \o command \o <<"\"">> >>

get_shell_command(command) ==
  IF is_windows
    THEN <<s_cmd, s_slash_c, command>>
    ELSE <<s_sh, s_dash_c, command>>

\* A variant of get_npm_install_command that uses the --prefix form on
\* every platform.
get_npm_install_command_prefix(frontend_dir) ==
  s_npm_prefix \o frontend_dir \o s_install

get_npm_install_command(frontend_dir) ==
  IF is_windows
    THEN s_cd \o frontend_dir \o s_and_npm_install
    ELSE s_npm_prefix \o frontend_dir \o s_install

-----------------------------------------------------------------------------
(* Tool discovery: lines 71-96 and 216-222. *)

\* shutil.which(name): the resolved path of name, or None.
which(name) == IF name \in path THEN Some(s_bin_dir \o name) ELSE None

check_command_exists(command) == which(command) # None

\* A variant of make_commands that probes gmake first.
make_commands_gmake_first == <<s_gmake, s_make, s_mingw32_make>>

make_commands == <<s_make, s_gmake, s_mingw32_make>>

\* The for loop of lines 92-96, from index i on.
RECURSIVE probe_make(_)
probe_make(i) ==
  IF i > Len(make_commands) THEN None
  ELSE IF check_command_exists(make_commands[i]) THEN Some(make_commands[i])
  ELSE probe_make(i + 1)

get_make_command == probe_make(1)

get_uv_command == which(s_uv)

-----------------------------------------------------------------------------
(* Installation advisories: lines 99-150 and 225-262. *)

\* A variant of suggest_make_installation without the macOS branch.
suggest_make_installation_no_macos ==
  IF is_windows THEN MakeAdvisoryWindows ELSE MakeAdvisoryLinux

suggest_make_installation ==
  IF is_windows THEN MakeAdvisoryWindows
  ELSE IF is_macos THEN MakeAdvisoryMacos
  ELSE MakeAdvisoryLinux

\* A variant of suggest_uv_installation that asks the os module, not
\* is_windows, which platform this is.
suggest_uv_installation_os_probe ==
  IF has_add_dll_directory THEN UvAdvisoryWindows ELSE UvAdvisoryUnix

suggest_uv_installation ==
  IF is_windows THEN UvAdvisoryWindows ELSE UvAdvisoryUnix

-----------------------------------------------------------------------------
(* The record of a call.  Every field is present in every record; a call   *)
(* fills the fields it has.                                                *)

NoCall ==
  [op |-> "none",
   arg |-> <<>>,            \* the str argument
   dir |-> "None",          \* the Path argument (cwd, project_path)
   capture_output |-> FALSE,
   check |-> FALSE,
   proc |-> [spawned |-> FALSE, code |-> 0, stderr |-> <<>>],  \* what the child did
   full |-> "none",         \* the file whose write found the disk full
   spawns |-> 0,            \* sub-processes this call started
   exc |-> "none",          \* the exception that left the call
   ret |-> <<>>,            \* returned strings (tokens, text, Optional)
   flag |-> FALSE,          \* returned bool
   returncode |-> 0,
   err |-> None,            \* stderr attribute of the result or of the error
   logs |-> <<>>]           \* records handed to logging

\* The call c is made: it becomes the last call.
Made(c) == call' = c

Ambient == <<system, has_add_dll_directory, path, environ, fs>>

-----------------------------------------------------------------------------
(* run_cross_platform_command: lines 153-188. *)

\* What the process-spawning provider can do with one spawn: fail to start
\* the child (OSError), or run it to an exit code with some stderr output.
ProcOutcomes ==
  {o \in [spawned : BOOLEAN, code : 0..MaxExitCode, stderr : {<<>>, s_boom}] :
     ~o.spawned => (o.code = 0 /\ o.stderr = <<>>)}

\* subprocess.run(..., check=check) raises CalledProcessError exactly when
\* check is set and the child's exit code is not zero (line 181).
\* A variant of subprocess_run_raises that drops the exit-code check.
subprocess_run_never_raises(check, returncode) == FALSE

subprocess_run_raises(check, returncode) == check /\ returncode # 0

\* subprocess.run(shell_cmd, cwd=cwd, capture_output=..., text=True,
\* check=check, encoding="utf-8") inside the try of lines 175-188, given
\* what the child does (outcome).
run_cross_platform_command(command, cwd, capture_output, check, outcome) ==
  LET shell_cmd == get_shell_command(command)
      \* stderr is captured only under capture_output; otherwise it is None
      captured == IF capture_output THEN Some(outcome.stderr) ELSE None
      base == [NoCall EXCEPT !.op = "run_cross_platform_command",
                             !.arg = command, !.dir = cwd,
                             !.capture_output = capture_output,
                             !.check = check, !.proc = outcome,
                             !.spawns = 1]
  IN  IF ~outcome.spawned
        \* the child could not be started: not a CalledProcessError, so the
        \* except clause does not apply
        THEN [base EXCEPT !.exc = "OSError"]
      ELSE IF subprocess_run_raises(check, outcome.code)
        \* CalledProcessError(returncode, cmd, output, stderr), logged twice
        \* and re-raised
        THEN [base EXCEPT
                !.exc = "CalledProcessError",
                !.ret = shell_cmd,
                !.returncode = outcome.code,
                !.err = captured,
                !.logs = << [level |-> "ERROR", text |-> "Command failed: ",
                             detail |-> command],
                            [level |-> "ERROR", text |-> "Error: ",
                             detail |-> IF captured # None /\ captured[1] # <<>>
                                          THEN captured[1] ELSE s_str_e] >>]
      ELSE [base EXCEPT !.ret = shell_cmd,
                        !.returncode = outcome.code,
                        !.err = captured]

-----------------------------------------------------------------------------
(* ensure_utf8_encoding: lines 191-202. *)

\* os.environ.setdefault(key, value) on the environment env
\* A variant of setdefault that assigns whether or not the key is set.
setdefault_overwrite(env, key, value) == [env EXCEPT ![key] = Some(value)]

setdefault(env, key, value) ==
  IF env[key] = None THEN [env EXCEPT ![key] = Some(value)] ELSE env

\* The environment the call leaves, when it finds env.
ensure_utf8_encoding(env) ==
  IF is_windows
    THEN LET e1 == setdefault(env, "PYTHONIOENCODING", s_utf_8)
         IN  IF has_add_dll_directory
               THEN setdefault(e1, "PYTHONUTF8", s_1)
               ELSE e1
    ELSE env

-----------------------------------------------------------------------------
(* create_platform_specific_scripts: lines 265-381. *)

\* with open(dir / name, "w", encoding="utf-8") as f: f.write(content)
\* on the directory state d.  open fails when the directory is missing or
\* the path may not be written; it truncates otherwise, and the write fails
\* on a full disk, leaving the file empty.
\* A variant of write_text that opens the file in append mode.
write_text_append(d, name, content, full) ==
  IF ~d.exists
    THEN [err |-> "FileNotFoundError", d |-> d]
  ELSE IF name \in d.denied
    THEN [err |-> "PermissionError", d |-> d]
  ELSE IF full = name
    THEN [err |-> "OSError", d |-> d]
  ELSE [err |-> "none",
        d |-> [d EXCEPT !.files[name] =
                 IF @ = None THEN Some(content) ELSE Some(@[1] \o content)]]

write_text(d, name, content, full) ==
  IF ~d.exists
    THEN [err |-> "FileNotFoundError", d |-> d]
  ELSE IF name \in d.denied
    THEN [err |-> "PermissionError", d |-> d]
  ELSE IF full = name
    THEN [err |-> "OSError", d |-> [d EXCEPT !.files[name] = Some(<<>>)]]
  ELSE [err |-> "none", d |-> [d EXCEPT !.files[name] = Some(content)]]

\* A variant of except_Exception that catches PermissionError only.
except_PermissionError(e) == e = "PermissionError"

\* except Exception as e (line 380): every error a write raises is an
\* Exception.
except_Exception(e) == e \in {"FileNotFoundError", "PermissionError", "OSError"}

\* A variant of create_platform_specific_scripts that goes on to build.ps1
\* after the write of build.bat has failed.
create_platform_specific_scripts_continue(d, full) ==
  LET w1 == write_text(d, "build.bat", batch_content, full)
      w2 == write_text(w1.d, "build.ps1", powershell_content, full)
      warning(e) == [level |-> "WARNING",
                     text |-> "Failed to create platform-specific scripts: ",
                     detail |-> e]
      info == [level |-> "INFO",
               text |-> "Created platform-specific build scripts",
               detail |-> <<>>]
  IN  IF w1.err # "none" THEN [d |-> w2.d, exc |-> "none", logs |-> <<warning(w1.err)>>]
      ELSE IF w2.err # "none" THEN [d |-> w2.d, exc |-> "none", logs |-> <<warning(w2.err)>>]
      ELSE [d |-> w2.d, exc |-> "none", logs |-> <<info>>]

\* The try block of lines 367-381 on the directory state d: the directory
\* state it leaves, the exception that leaves the call and the log records.
create_platform_specific_scripts(d, full) ==
  LET w1 == write_text(d, "build.bat", batch_content, full)
      w2 == write_text(w1.d, "build.ps1", powershell_content, full)
      warning(e) == [level |-> "WARNING",
                     text |-> "Failed to create platform-specific scripts: ",
                     detail |-> e]
      \* the except clause: log and return, or let the error leave the call
      failed(e, dir) ==
        IF except_Exception(e)
          THEN [d |-> dir, exc |-> "none", logs |-> <<warning(e)>>]
          ELSE [d |-> dir, exc |-> e, logs |-> <<>>]
      info == [level |-> "INFO",
               text |-> "Created platform-specific build scripts",
               detail |-> <<>>]
  IN  IF w1.err # "none" THEN failed(w1.err, w1.d)
      ELSE IF w2.err # "none" THEN failed(w2.err, w2.d)
      ELSE [d |-> w2.d, exc |-> "none", logs |-> <<info>>]

-----------------------------------------------------------------------------
(* Initial states.  The ambient state is drawn along three axes: the       *)
(* platform and PATH, the environment variables, and the project           *)
(* directory.  "nowhere" names no directory in any of them.                *)

MissingDir ==
  [exists |-> FALSE, denied |-> {}, files |-> [n \in FileNames |-> None]]

\* A generated project before the scripts are written: only its Makefile.
FreshDir ==
  [exists |-> TRUE, denied |-> {},
   files |-> [n \in FileNames |->
                IF n = "Makefile" THEN Some(makefile_content) ELSE None]]

DefaultEnviron == [n \in EnvNames |-> IF n = "LANG" THEN Some(s_C) ELSE None]

Environs ==
  {e \in [EnvNames -> {None} \cup {Some(v) : v \in UNION {EnvValues[n] : n \in EnvNames}}] :
     \A n \in EnvNames : e[n] # None => e[n][1] \in EnvValues[n]}

ProjectDirs ==
  {MissingDir} \cup
  {d \in [exists : {TRUE}, denied : SUBSET ScriptNames,
          files : [FileNames -> {None, Some(old_content), Some(makefile_content)}]] :
     /\ d.files["build.bat"] \in {None, Some(old_content)}
     /\ d.files["build.ps1"] \in {None, Some(old_content)}
     /\ d.files["Makefile"] \in {None, Some(makefile_content)}}

InitPlatform ==
  /\ system \in Systems
  /\ has_add_dll_directory = (system = "Windows")
  /\ path \in SUBSET KnownTools
  /\ environ = DefaultEnviron
  /\ fs = [d \in Dirs |-> IF d = "proj" THEN FreshDir ELSE MissingDir]

InitEnviron ==
  /\ system \in {"Windows", "Linux"}
  /\ has_add_dll_directory \in BOOLEAN
  /\ path = {s_make, s_uv}
  /\ environ \in Environs
  /\ fs = [d \in Dirs |-> IF d = "proj" THEN FreshDir ELSE MissingDir]

InitFilesystem ==
  /\ system = "Linux"
  /\ has_add_dll_directory = FALSE
  /\ path = {s_make, s_uv}
  /\ environ = DefaultEnviron
  /\ \E p \in ProjectDirs : fs = [d \in Dirs |-> IF d = "proj" THEN p ELSE MissingDir]

Init ==
  /\ \/ InitPlatform
     \/ InitEnviron
     \/ InitFilesystem
  /\ call = NoCall

-----------------------------------------------------------------------------
(* Actions: one per public function. *)

IsWindows ==
  /\ Made([NoCall EXCEPT !.op = "is_windows", !.flag = is_windows])
  /\ UNCHANGED Ambient

IsMacos ==
  /\ Made([NoCall EXCEPT !.op = "is_macos", !.flag = is_macos])
  /\ UNCHANGED Ambient

IsLinux ==
  /\ Made([NoCall EXCEPT !.op = "is_linux", !.flag = is_linux])
  /\ UNCHANGED Ambient

GetShellCommand ==
  /\ \E command \in Commands :
       Made([NoCall EXCEPT !.op = "get_shell_command", !.arg = command,
                           !.ret = get_shell_command(command)])
  /\ UNCHANGED Ambient

GetNpmInstallCommand ==
  /\ \E frontend_dir \in FrontendDirs :
       Made([NoCall EXCEPT !.op = "get_npm_install_command",
                           !.arg = frontend_dir,
                           !.ret = Some(get_npm_install_command(frontend_dir))])
  /\ UNCHANGED Ambient

CheckCommandExists ==
  /\ \E command \in ProbedTools :
       Made([NoCall EXCEPT !.op = "check_command_exists", !.arg = command,
                           !.flag = check_command_exists(command)])
  /\ UNCHANGED Ambient

GetMakeCommand ==
  /\ Made([NoCall EXCEPT !.op = "get_make_command", !.ret = get_make_command])
  /\ UNCHANGED Ambient

GetUvCommand ==
  /\ Made([NoCall EXCEPT !.op = "get_uv_command", !.ret = get_uv_command])
  /\ UNCHANGED Ambient

SuggestMakeInstallation ==
  /\ Made([NoCall EXCEPT !.op = "suggest_make_installation",
                         !.ret = Some(suggest_make_installation)])
  /\ UNCHANGED Ambient

SuggestUvInstallation ==
  /\ Made([NoCall EXCEPT !.op = "suggest_uv_installation",
                         !.ret = Some(suggest_uv_installation)])
  /\ UNCHANGED Ambient

RunCrossPlatformCommand ==
  /\ \E command \in Commands, cwd \in {"None", "nowhere"},
        capture_output \in BOOLEAN, check \in BOOLEAN, outcome \in ProcOutcomes :
       \* a child cannot be started in a working directory that does not exist
       /\ (cwd # "None" /\ ~fs[cwd].exists) => ~outcome.spawned
       /\ Made(run_cross_platform_command(command, cwd, capture_output, check, outcome))
  /\ UNCHANGED Ambient

EnsureUtf8Encoding ==
  /\ environ' = ensure_utf8_encoding(environ)
  /\ Made([NoCall EXCEPT !.op = "ensure_utf8_encoding"])
  /\ UNCHANGED <<system, has_add_dll_directory, path, fs>>

CreatePlatformSpecificScripts ==
  /\ \E project_path \in Dirs, full \in {"none"} \cup ScriptNames :
       LET r == create_platform_specific_scripts(fs[project_path], full)
       IN  /\ fs' = [fs EXCEPT ![project_path] = r.d]
           /\ Made([NoCall EXCEPT !.op = "create_platform_specific_scripts",
                                  !.dir = project_path, !.full = full,
                                  !.exc = r.exc, !.logs = r.logs])
  /\ UNCHANGED <<system, has_add_dll_directory, path, environ>>

Next ==
  \/ IsWindows
  \/ IsMacos
  \/ IsLinux
  \/ GetShellCommand
  \/ GetNpmInstallCommand
  \/ CheckCommandExists
  \/ GetMakeCommand
  \/ GetUvCommand
  \/ SuggestMakeInstallation
  \/ SuggestUvInstallation
  \/ RunCrossPlatformCommand
  \/ EnsureUtf8Encoding
  \/ CreatePlatformSpecificScripts

Spec == Init /\ [][Next]_vars


-----------------------------------------------------------------------------
(* Vocabulary of the properties. *)

\* detect_platform of the specification: the OS name classified into one of
\* Windows, macOS, Linux, Other.
detect_platform ==
  CASE system = "Windows" -> "Windows"
    [] system = "Darwin" -> "macOS"
    [] system = "Linux" -> "Linux"
    [] OTHER -> "Other"

\* sub in text
Contains(text, sub) ==
  \E i \in 1..(Len(text) + 1 - Len(sub)) : SubSeq(text, i, i + Len(sub) - 1) = sub

StartsWith(text, prefix) ==
  Len(text) >= Len(prefix) /\ SubSeq(text, 1, Len(prefix)) = prefix

\* The predicates that hold of the current OS name.
TruePredicates ==
  {p \in {"is_windows", "is_macos", "is_linux"} :
     \/ p = "is_windows" /\ is_windows
     \/ p = "is_macos" /\ is_macos
     \/ p = "is_linux" /\ is_linux}

-----------------------------------------------------------------------------
(* C1 *)

-----------------------------------------------------------------------------
(* C2 *)

\* C2: a call of ensure_utf8_encoding changes no variable that had a value,
\* on Windows leaves PYTHONIOENCODING = "utf-8" when it was unset, and
\* leaves an environment that a second call does not change.
Utf8SetupSetIfAbsent ==
  [][(call'.op = "ensure_utf8_encoding" /\ EnsureUtf8Encoding) =>
       /\ \A n \in EnvNames : environ[n] # None => environ'[n] = environ[n]
       /\ (is_windows /\ environ["PYTHONIOENCODING"] = None) =>
            environ'["PYTHONIOENCODING"] = Some(<<"u","t","f","-","8">>)
       /\ ensure_utf8_encoding(environ') = environ']_vars

\* On Windows a call has set PYTHONIOENCODING and kept an explicit
\* PYTHONUTF8=0 that it would otherwise have set to 1.
Utf8SetupKeptExplicitValue ==
  /\ call.op = "ensure_utf8_encoding"
  /\ is_windows /\ has_add_dll_directory
  /\ environ["PYTHONIOENCODING"] = Some(s_utf_8)
  /\ environ["PYTHONUTF8"] = Some(s_0)

-----------------------------------------------------------------------------
(* C3 *)

\* C3: create_platform_specific_scripts raises nothing, and when a write
\* cannot be done (the directory is missing, a script path may not be
\* written, or the disk is full) it logs one warning.
ScriptWriteFailureNotPropagated ==
  call.op = "create_platform_specific_scripts" =>
    /\ call.exc = "none"
    /\ Len(call.logs) = 1
    /\ ( \/ ~fs[call.dir].exists
         \/ fs[call.dir].denied # {}
         \/ call.full # "none" ) => call.logs[1].level = "WARNING"

\* The second write failed after the first was done, and the call returned.
ScriptWriteFailureSeen ==
  /\ call.op = "create_platform_specific_scripts"
  /\ call.dir = "proj"
  /\ fs["proj"].denied = {"build.ps1"}
  /\ fs["proj"].files["build.bat"] = Some(batch_content)
  /\ call.exc = "none"
  /\ call.logs[1].level = "WARNING"

-----------------------------------------------------------------------------
(* C4 *)

\* C4: a call of create_platform_specific_scripts that succeeds leaves
\* build.bat and build.ps1 holding the two templates whatever they held,
\* leaves every other file and directory as it was, and leaves a state that
\* a further successful call does not change.
ScriptsOverwriteIdempotent ==
  [][(/\ call'.op = "create_platform_specific_scripts"
      /\ call'.logs[1].level = "INFO"
      /\ CreatePlatformSpecificScripts) =>
       LET d == call'.dir IN
       /\ fs'[d].files["build.bat"] = Some(batch_content)
       /\ fs'[d].files["build.ps1"] = Some(powershell_content)
       /\ fs'[d].files["Makefile"] = fs[d].files["Makefile"]
       /\ \A o \in Dirs \ {d} : fs'[o] = fs[o]
       /\ create_platform_specific_scripts(fs'[d], "none").d = fs'[d]]_vars

\* A successful call: both templates are in place beside the Makefile.
ScriptsWritten ==
  /\ call.op = "create_platform_specific_scripts"
  /\ call.dir = "proj"
  /\ call.logs[1].level = "INFO"
  /\ fs["proj"].files["build.bat"] = Some(batch_content)
  /\ fs["proj"].files["build.ps1"] = Some(powershell_content)
  /\ fs["proj"].files["Makefile"] = Some(makefile_content)

-----------------------------------------------------------------------------
(* C5 *)

\* C5: get_make_command returns make when make is on PATH, else gmake when
\* gmake is, else mingw32-make when that is, and None exactly when none of
\* the three is; it raises nothing.
FindMakePriority ==
  call.op = "get_make_command" =>
    /\ call.exc = "none"
    /\ <<"m","a","k","e">> \in path => call.ret = Some(<<"m","a","k","e">>)
    /\ (<<"m","a","k","e">> \notin path /\ <<"g","m","a","k","e">> \in path) =>
         call.ret = Some(<<"g","m","a","k","e">>)
    /\ ({<<"m","a","k","e">>, <<"g","m","a","k","e">>} \cap path = {}
        /\ <<"m","i","n","g","w","3","2","-","m","a","k","e">> \in path) =>
         call.ret = Some(<<"m","i","n","g","w","3","2","-","m","a","k","e">>)
    /\ (call.ret = None) <=>
         ({<<"m","a","k","e">>, <<"g","m","a","k","e">>,
           <<"m","i","n","g","w","3","2","-","m","a","k","e">>} \cap path = {})

\* gmake is returned although mingw32-make is present too.
FindMakeFallbackSeen ==
  /\ call.op = "get_make_command"
  /\ s_make \notin path
  /\ s_gmake \in path
  /\ s_mingw32_make \in path
  /\ call.ret = Some(s_gmake)

-----------------------------------------------------------------------------
(* C6 *)

-----------------------------------------------------------------------------
(* C7 *)

PlatformOps ==
  {"get_shell_command", "get_npm_install_command",
   "suggest_make_installation", "suggest_uv_installation"}

\* The advisories as a table keyed by tool and platform identity.
AdvisoryTable ==
  [make |-> [Windows |-> MakeAdvisoryWindows, macOS |-> MakeAdvisoryMacos,
             Linux |-> MakeAdvisoryLinux, Other |-> MakeAdvisoryLinux],
   uv |-> [Windows |-> UvAdvisoryWindows, macOS |-> UvAdvisoryUnix,
           Linux |-> UvAdvisoryUnix, Other |-> UvAdvisoryUnix]]

\* What a platform-dependent function returns, as a function of the
\* platform identity and the argument alone.
ByIdentity(op, identity, arg) ==
  CASE op = "get_shell_command" ->
         IF identity = "Windows" THEN <<s_cmd, s_slash_c, arg>>
                                 ELSE <<s_sh, s_dash_c, arg>>
    [] op = "get_npm_install_command" ->
         IF identity = "Windows" THEN Some(s_cd \o arg \o s_and_npm_install)
                                 ELSE Some(s_npm_prefix \o arg \o s_install)
    [] op = "suggest_make_installation" -> Some(AdvisoryTable.make[identity])
    [] op = "suggest_uv_installation" -> Some(AdvisoryTable.uv[identity])

\* C7: what get_shell_command, get_npm_install_command and the two
\* advisories return is a function of the platform identity and the argument
\* alone, whatever PATH, the environment, the filesystem and the os module
\* are; and in one process all four take the Windows branch exactly when the
\* identity is Windows.
SingleSourceOfTruth ==
  LET windows == detect_platform = "Windows" IN
  /\ \A c \in Commands : (get_shell_command(c)[1] = <<"c","m","d">>) <=> windows
  /\ \A d \in FrontendDirs :
       StartsWith(get_npm_install_command(d), <<"c","d"," ">>) <=> windows
  /\ Contains(suggest_make_installation, <<"o","n"," ","W","i","n","d","o","w","s">>)
       <=> windows
  /\ Contains(suggest_uv_installation, <<"o","n"," ","W","i","n","d","o","w","s">>)
       <=> windows
  /\ call.op \in PlatformOps => call.ret = ByIdentity(call.op, detect_platform, call.arg)

\* The OS name is substituted: Windows is reported although the os module
\* is not the Windows one, and the npm command takes the Windows form.
SubstitutedIdentityFollowed ==
  /\ call.op = "get_npm_install_command"
  /\ system = "Windows"
  /\ ~has_add_dll_directory
  /\ StartsWith(call.ret[1], s_cd)

-----------------------------------------------------------------------------
(* C8 *)

\* C8: get_shell_command returns three tokens: cmd, /c and the command on
\* Windows, sh, -c and the command on every other platform; the third token
\* is the command as given.
ShellInvocationShape ==
  call.op = "get_shell_command" =>
    /\ Len(call.ret) = 3
    /\ call.ret[3] = call.arg
    /\ IF detect_platform = "Windows"
         THEN call.ret[1] = <<"c","m","d">> /\ call.ret[2] = <<"/","c">>
         ELSE call.ret[1] = <<"s","h">> /\ call.ret[2] = <<"-","c">>

\* A command with quotes and && went through sh -c on macOS untouched.
ShellInvocationVerbatimSeen ==
  /\ call.op = "get_shell_command"
  /\ detect_platform = "macOS"
  /\ call.arg = s_quoted
  /\ call.ret = <<s_sh, s_dash_c, s_quoted>>

-----------------------------------------------------------------------------
(* C9 *)

\* C9: get_npm_install_command returns "cd " + frontend_dir +
\* " && npm install" on Windows and "npm --prefix " + frontend_dir +
\* " install" on every other platform, with frontend_dir as given.
NpmInstallShape ==
  call.op = "get_npm_install_command" =>
    call.ret =
      Some(IF detect_platform = "Windows"
             THEN <<"c","d"," ">> \o call.arg
                    \o <<" ","&","&"," ","n","p","m"," ","i","n","s","t","a","l","l">>
             ELSE <<"n","p","m"," ","-","-","p","r","e","f","i","x"," ">> \o call.arg
                    \o <<" ","i","n","s","t","a","l","l">>)

\* A directory with a space in its name, on Windows.
NpmInstallWindowsSeen ==
  /\ call.op = "get_npm_install_command"
  /\ detect_platform = "Windows"
  /\ call.arg = s_my_app
  /\ Contains(call.ret[1], s_my_app)
  /\ StartsWith(call.ret[1], s_cd)

-----------------------------------------------------------------------------
(* C10 *)

\* C10: each advisory is the entry of a fixed table for its tool and the
\* platform identity, and is not empty; the make advisory for Windows names
\* Chocolatey, Winget and Scoop, the one for macOS Homebrew and
\* xcode-select.
AdvisoryStaticLookup ==
  call.op \in {"suggest_make_installation", "suggest_uv_installation"} =>
    LET tool == IF call.op = "suggest_make_installation" THEN "make" ELSE "uv"
        text == call.ret[1]
    IN  /\ Len(call.ret) = 1
        /\ text = AdvisoryTable[tool][detect_platform]
        /\ Len(text) > 0
        /\ (tool = "make" /\ detect_platform = "Windows") =>
             /\ Contains(text, s_Chocolatey)
             /\ Contains(text, s_Winget)
             /\ Contains(text, s_Scoop)
        /\ (tool = "make" /\ detect_platform = "macOS") =>
             /\ Contains(text, s_Homebrew)
             /\ Contains(text, s_xcode_select)

\* The make advisory was asked on macOS and names Homebrew.
MacosMakeAdvisorySeen ==
  /\ call.op = "suggest_make_installation"
  /\ detect_platform = "macOS"
  /\ Contains(call.ret[1], s_Homebrew)
  /\ Contains(call.ret[1], s_xcode_select)

-----------------------------------------------------------------------------
(* C11 *)

\* A step that is a call of create_platform_specific_scripts.
ScriptsCall ==
  /\ call'.op = "create_platform_specific_scripts"
  /\ CreatePlatformSpecificScripts

\* C11 as stated: after a call, either both scripts hold their templates
\* and no warning was logged, or a warning was logged and the call left
\* build.ps1 as it found it.
WarningLeavesPs1Untouched ==
  [][ScriptsCall =>
       LET d == call'.dir IN
       \/ /\ call'.logs[1].level = "INFO"
          /\ fs'[d].files["build.bat"] = Some(batch_content)
          /\ fs'[d].files["build.ps1"] = Some(powershell_content)
       \/ /\ call'.logs[1].level = "WARNING"
          /\ fs'[d].files["build.ps1"] = fs[d].files["build.ps1"]]_vars

\* C11 (amended): build.bat is written first, build.ps1 second, and the call
\* stops at the first failure without rolling back.  After a call, either
\* both scripts hold their templates and no warning was logged, or a warning
\* was logged and build.ps1 did not receive its template from this call: it
\* is as the call found it, or, when its own write failed after the file was
\* opened, it is left empty.  A call whose build.bat write failed leaves
\* build.ps1 as it found it (and build.bat as it found it or empty); a call
\* whose build.ps1 write failed leaves the newly written build.bat in place.
ScriptsWrittenInOrderNoRollback ==
  [][ScriptsCall =>
       LET d == call'.dir
           full == call'.full
           bat == fs[d].files["build.bat"]
           ps1 == fs[d].files["build.ps1"]
           bat_fails == ~fs[d].exists \/ "build.bat" \in fs[d].denied
                          \/ full = "build.bat"
           ps1_fails == ~bat_fails /\ ("build.ps1" \in fs[d].denied
                                        \/ full = "build.ps1")
       IN
       /\ Len(call'.logs) = 1
       /\ \/ /\ call'.logs[1].level = "INFO"
             /\ fs'[d].files["build.bat"] = Some(batch_content)
             /\ fs'[d].files["build.ps1"] = Some(powershell_content)
          \/ /\ call'.logs[1].level = "WARNING"
             /\ \/ fs'[d].files["build.ps1"] = ps1
                \/ /\ full = "build.ps1"
                   /\ fs'[d].files["build.ps1"] = Some(<<>>)
       /\ (call'.logs[1].level = "WARNING") <=> (bat_fails \/ ps1_fails)
       /\ bat_fails =>
            /\ fs'[d].files["build.ps1"] = ps1
            /\ fs'[d].files["build.bat"] =
                 IF full = "build.bat" /\ fs[d].exists /\ "build.bat" \notin fs[d].denied
                   THEN Some(<<>>) ELSE bat
       /\ ps1_fails => fs'[d].files["build.bat"] = Some(batch_content)]_vars

\* The write of build.ps1 failed on a full disk: a warning was logged, the
\* new build.bat is in place and build.ps1 is left empty.
Ps1WriteFailedBatKept ==
  /\ call.op = "create_platform_specific_scripts"
  /\ call.dir = "proj"
  /\ call.full = "build.ps1"
  /\ call.logs[1].level = "WARNING"
  /\ fs["proj"].files["build.bat"] = Some(batch_content)
  /\ fs["proj"].files["build.ps1"] = Some(<<>>)

=============================================================================
